---------------------------- MODULE Spec2Model ----------------------------
(***************************************************************************)
(* blocking_queue<T> (src/monte_carlo.cpp, lines 197-290): a monitor made  *)
(* of a std::queue, a std::mutex and a std::condition_variable, and its    *)
(* caller execute_monitor (lines 99-142).                                  *)
(*                                                                         *)
(* Every thread is a little program counter machine.  One action is one    *)
(* step that another thread can observe: taking the mutex, a statement     *)
(* executed under the mutex, the atomic unlock-and-suspend of              *)
(* condition_variable::wait, releasing the mutex.                          *)
(***************************************************************************)
EXTENDS Integers, Sequences, FiniteSets, Bags, TLC

\* ------------------------------------------------------------- bounds
\* Threads calling the queue in the open workload (specification Spec).
NThreads == 3
\* push calls and pop calls those threads may make in all.
MaxPush == 2
MaxPop == 2
\* Distinct element values of T.
NElems == 2
\* execute_monitor(threads_per_type, points_per_thread, sleep_ns), scaled.
ThreadsPerType == 2
PointsPerThread == 2

Threads == 1 .. NThreads
Elems == 1 .. NElems
Producers == 1 .. ThreadsPerType
Consumers == (ThreadsPerType + 1) .. (2 * ThreadsPerType)
MonitorThreads == Producers \cup Consumers

VARIABLES
  m_queue,    \* std::queue<T> m_queue: the buffer, head first
  m_mutex,    \* std::mutex m_mutex: the set holding its owner ({} when free)
  m_cv,       \* std::condition_variable m_cv: the threads suspended in wait
  pc,         \* pc[t]: where thread t is
  elem,       \* elem[t]: push's argument elem, <<e>> while t is in push
  ret,        \* ret[t]: <<v>>, the value size or empty is about to return
  calls,      \* calls[t]: calls t has made (the loop index i of produce/consume)
  pushed,     \* history: the elements in the order m_queue.push(elem) inserted them
  popped,     \* history: the elements in the order pop removed and returned them
  pushDone,   \* history: number of push calls that have returned
  sawEmpty    \* history: sawEmpty[t] = <<n, m>> when t's pop in progress found the
              \* buffer empty, first after n insertions and last after m; else <<>>

vars == << m_queue, m_mutex, m_cv, pc, elem, ret, calls, pushed, popped,
           pushDone, sawEmpty >>

\* ------------------------------------------------------ std::queue<T>
\* std::queue::push: append at the tail.
QueuePush(q, e) == Append(q, e)

\* std::queue::empty.
QueueEmpty(q) == Len(q) = 0

\* A size that is off by one.
QueueSizeOffByOne(q) == Len(q) + 1

\* std::queue::size.
QueueSize(q) == Len(q)

\* A front() that reads the wrong end of the container (back() for front()).
QueueBack(q) == IF Len(q) = 0 THEN Elems ELSE {q[Len(q)]}

\* std::queue::front: the head; calling it on an empty queue is undefined
\* behaviour, any value of T may come out.
QueueFront(q) == IF Len(q) = 0 THEN Elems ELSE {Head(q)}

\* A pop() that leaves the head in place (the removal forgotten).
QueueKeep(q) == q

\* A pop() that empties the container.
QueueClear(q) == << >>

\* std::queue::pop: drop the head; on an empty queue undefined behaviour, the
\* container is left with nothing in it.
QueuePop(q) == IF Len(q) = 0 THEN q ELSE Tail(q)

\* The predicate written without its negation.
PredInverted(q) == QueueEmpty(q)

\* The predicate of pop's wait: [this] { return !m_queue.empty(); }
Pred(q) == ~QueueEmpty(q)

\* ------------------------------------------------------- std::mutex
MutexFree == m_mutex = {}

\* ------------------------------------------------------------- Init
\* blocking_queue() = default: an empty queue, a free mutex, nobody waiting.
InitQueue ==
  /\ m_queue = << >>
  /\ m_mutex = {}
  /\ m_cv = {}
  /\ pushed = << >>
  /\ popped = << >>
  /\ pushDone = 0

InitThreads(T) ==
  /\ pc = [t \in T |-> "idle"]
  /\ elem = [t \in T |-> << >>]
  /\ ret = [t \in T |-> << >>]
  /\ calls = [t \in T |-> 0]
  /\ sawEmpty = [t \in T |-> << >>]

Init == InitQueue /\ InitThreads(Threads)

\* ------------------------------------------------------------- push
\* A thread enters push(elem).
CallPush(t, e) ==
  /\ pc[t] = "idle"
  /\ pc' = [pc EXCEPT ![t] = "push_lock"]
  /\ elem' = [elem EXCEPT ![t] = <<e>>]
  /\ UNCHANGED << m_queue, m_mutex, m_cv, ret, pushed, popped, pushDone, sawEmpty >>

\* A push into a bounded buffer, which waits while the buffer holds something.
PushLockBounded(t) ==
  /\ pc[t] = "push_lock"
  /\ MutexFree
  /\ QueueEmpty(m_queue)
  /\ m_mutex' = {t}
  /\ pc' = [pc EXCEPT ![t] = "push_append"]
  /\ UNCHANGED << m_queue, m_cv, elem, ret, calls, pushed, popped, pushDone, sawEmpty >>

\* std::lock_guard lock(m_mutex);
PushLock(t) ==
  /\ pc[t] = "push_lock"
  /\ MutexFree
  /\ m_mutex' = {t}
  /\ pc' = [pc EXCEPT ![t] = "push_append"]
  /\ UNCHANGED << m_queue, m_cv, elem, ret, calls, pushed, popped, pushDone, sawEmpty >>

\* A push whose lock is scoped around the append only,
\* { std::lock_guard lock(m_mutex); m_queue.push(elem); } m_cv.notify_one();
PushAppendUnlock(t) ==
  /\ pc[t] = "push_append"
  /\ m_queue' = QueuePush(m_queue, elem[t][1])
  /\ pushed' = Append(pushed, elem[t][1])
  /\ m_mutex' = {}
  /\ pc' = [pc EXCEPT ![t] = "push_notify"]
  /\ UNCHANGED << m_cv, elem, ret, calls, popped, pushDone, sawEmpty >>

\* m_queue.push(elem);
PushAppend(t) ==
  /\ pc[t] = "push_append"
  /\ m_queue' = QueuePush(m_queue, elem[t][1])
  /\ pushed' = Append(pushed, elem[t][1])
  /\ pc' = [pc EXCEPT ![t] = "push_notify"]
  /\ UNCHANGED << m_mutex, m_cv, elem, ret, calls, popped, pushDone, sawEmpty >>

\* A push that notifies only when the buffer was empty before it,
\* if (m_queue.size() == 1) m_cv.notify_one();
PushNotifyIfWasEmpty(t) ==
  /\ pc[t] = "push_notify"
  /\ \/ /\ m_cv = {} \/ Len(m_queue) # 1
        /\ pc' = [pc EXCEPT ![t] = "push_unlock"]
        /\ UNCHANGED m_cv
     \/ /\ Len(m_queue) = 1
        /\ \E w \in m_cv :
             /\ m_cv' = m_cv \ {w}
             /\ pc' = [pc EXCEPT ![t] = "push_unlock", ![w] = "pop_relock"]
  /\ UNCHANGED << m_queue, m_mutex, elem, ret, calls, pushed, popped, pushDone, sawEmpty >>

\* A push without the notify.
PushNoNotify(t) ==
  /\ pc[t] = "push_notify"
  /\ pc' = [pc EXCEPT ![t] = "push_unlock"]
  /\ UNCHANGED << m_queue, m_mutex, m_cv, elem, ret, calls, pushed, popped, pushDone,
                  sawEmpty >>

\* m_cv.notify_one(): one of the suspended threads, if there is any, is made
\* runnable; it has yet to take the mutex again.
PushNotify(t) ==
  /\ pc[t] = "push_notify"
  /\ \/ /\ m_cv = {}
        /\ pc' = [pc EXCEPT ![t] = "push_unlock"]
        /\ UNCHANGED m_cv
     \/ \E w \in m_cv :
          /\ m_cv' = m_cv \ {w}
          /\ pc' = [pc EXCEPT ![t] = "push_unlock", ![w] = "pop_relock"]
  /\ UNCHANGED << m_queue, m_mutex, elem, ret, calls, pushed, popped, pushDone, sawEmpty >>

\* } : the lock_guard's destructor releases the mutex and push returns.
PushUnlock(t) ==
  /\ pc[t] = "push_unlock"
  /\ m_mutex' = {}
  /\ pc' = [pc EXCEPT ![t] = "idle"]
  /\ elem' = [elem EXCEPT ![t] = << >>]
  /\ pushDone' = pushDone + 1
  /\ UNCHANGED << m_queue, m_cv, ret, calls, pushed, popped, sawEmpty >>

\* -------------------------------------------------------------- pop
\* A thread enters pop().
CallPop(t) ==
  /\ pc[t] = "idle"
  /\ pc' = [pc EXCEPT ![t] = "pop_lock"]
  /\ UNCHANGED << m_queue, m_mutex, m_cv, elem, ret, pushed, popped, pushDone, sawEmpty >>

\* std::unique_lock lock(m_mutex);
PopLock(t) ==
  /\ pc[t] = "pop_lock"
  /\ MutexFree
  /\ m_mutex' = {t}
  /\ pc' = [pc EXCEPT ![t] = "pop_check"]
  /\ UNCHANGED << m_queue, m_cv, elem, ret, calls, pushed, popped, pushDone, sawEmpty >>

\* A wait that suspends without releasing the mutex.
PopCheckKeepMutex(t) ==
  /\ pc[t] = "pop_check"
  /\ IF Pred(m_queue)
       THEN /\ pc' = [pc EXCEPT ![t] = "pop_remove"]
            /\ UNCHANGED << m_cv, sawEmpty >>
       ELSE /\ m_cv' = m_cv \cup {t}
            /\ pc' = [pc EXCEPT ![t] = "pop_wait"]
            /\ sawEmpty' = [sawEmpty EXCEPT ![t] =
                 IF @ = << >> THEN << Len(pushed), Len(pushed) >>
                              ELSE << @[1], Len(pushed) >>]
  /\ UNCHANGED << m_queue, m_mutex, elem, ret, calls, pushed, popped, pushDone >>

\* m_cv.wait(lock, pred), which is  while (!pred()) wait(lock);  one test of
\* the predicate: true, go on to the removal; false, release the mutex and
\* suspend on m_cv in one atomic step.
PopCheck(t) ==
  /\ pc[t] = "pop_check"
  /\ IF Pred(m_queue)
       THEN /\ pc' = [pc EXCEPT ![t] = "pop_remove"]
            /\ UNCHANGED << m_mutex, m_cv, sawEmpty >>
       ELSE /\ m_mutex' = {}
            /\ m_cv' = m_cv \cup {t}
            /\ pc' = [pc EXCEPT ![t] = "pop_wait"]
            /\ sawEmpty' = [sawEmpty EXCEPT ![t] =
                 IF @ = << >> THEN << Len(pushed), Len(pushed) >>
                              ELSE << @[1], Len(pushed) >>]
  /\ UNCHANGED << m_queue, elem, ret, calls, pushed, popped, pushDone >>

\* condition_variable::wait may return without any notify (spurious wakeup).
SpuriousWakeup(t) ==
  /\ pc[t] = "pop_wait"
  /\ t \in m_cv
  /\ m_cv' = m_cv \ {t}
  /\ pc' = [pc EXCEPT ![t] = "pop_relock"]
  /\ UNCHANGED << m_queue, m_mutex, elem, ret, calls, pushed, popped, pushDone, sawEmpty >>

\* A wait without the loop,  if (!pred()) wait(lock);  : the woken thread goes
\* on to the removal without testing the predicate again.
PopRelockNoRecheck(t) ==
  /\ pc[t] = "pop_relock"
  /\ MutexFree
  /\ m_mutex' = {t}
  /\ pc' = [pc EXCEPT ![t] = "pop_remove"]
  /\ UNCHANGED << m_queue, m_cv, elem, ret, calls, pushed, popped, pushDone, sawEmpty >>

\* A wait that comes back without waiting for the mutex to be free.
PopRelockNoWait(t) ==
  /\ pc[t] = "pop_relock"
  /\ m_mutex' = {t}
  /\ pc' = [pc EXCEPT ![t] = "pop_check"]
  /\ UNCHANGED << m_queue, m_cv, elem, ret, calls, pushed, popped, pushDone, sawEmpty >>

\* The woken thread takes the mutex again before wait(lock) returns, and the
\* loop tests the predicate again.
PopRelock(t) ==
  /\ pc[t] = "pop_relock"
  /\ MutexFree
  /\ m_mutex' = {t}
  /\ pc' = [pc EXCEPT ![t] = "pop_check"]
  /\ UNCHANGED << m_queue, m_cv, elem, ret, calls, pushed, popped, pushDone, sawEmpty >>

\* A pop that notifies one waiter after the removal.
PopRemoveNotify(t) ==
  /\ pc[t] = "pop_remove"
  /\ \E e \in QueueFront(m_queue) : popped' = Append(popped, e)
  /\ m_queue' = QueuePop(m_queue)
  /\ m_mutex' = {}
  /\ sawEmpty' = [sawEmpty EXCEPT ![t] = << >>]
  /\ \/ /\ m_cv = {}
        /\ pc' = [pc EXCEPT ![t] = "idle"]
        /\ UNCHANGED m_cv
     \/ \E w \in m_cv :
          /\ m_cv' = m_cv \ {w}
          /\ pc' = [pc EXCEPT ![t] = "idle", ![w] = "pop_relock"]
  /\ UNCHANGED << elem, ret, calls, pushed, pushDone >>

\* T elem = std::move(m_queue.front()); m_queue.pop(); return elem; } :
\* under the mutex the head is moved out and dropped, then the unique_lock's
\* destructor releases the mutex and pop returns the element.
PopRemove(t) ==
  /\ pc[t] = "pop_remove"
  /\ \E e \in QueueFront(m_queue) : popped' = Append(popped, e)
  /\ m_queue' = QueuePop(m_queue)
  /\ m_mutex' = {}
  /\ pc' = [pc EXCEPT ![t] = "idle"]
  /\ sawEmpty' = [sawEmpty EXCEPT ![t] = << >>]
  /\ UNCHANGED << m_cv, elem, ret, calls, pushed, pushDone >>

\* ----------------------------------------------------- size and empty
CallSize(t) ==
  /\ pc[t] = "idle"
  /\ pc' = [pc EXCEPT ![t] = "size_lock"]
  /\ UNCHANGED << m_queue, m_mutex, m_cv, elem, ret, pushed, popped, pushDone, sawEmpty >>

\* A size that reads the buffer without taking the mutex.
SizeNoLock(t) ==
  /\ pc[t] = "size_lock"
  /\ pc' = [pc EXCEPT ![t] = "size_read"]
  /\ UNCHANGED << m_queue, m_mutex, m_cv, elem, ret, calls, pushed, popped, pushDone,
                  sawEmpty >>

\* std::lock_guard lock(m_mutex);
SizeLock(t) ==
  /\ pc[t] = "size_lock"
  /\ MutexFree
  /\ m_mutex' = {t}
  /\ pc' = [pc EXCEPT ![t] = "size_read"]
  /\ UNCHANGED << m_queue, m_cv, elem, ret, calls, pushed, popped, pushDone, sawEmpty >>

\* return m_queue.size(); : the return value is read under the mutex.
SizeRead(t) ==
  /\ pc[t] = "size_read"
  /\ ret' = [ret EXCEPT ![t] = << QueueSize(m_queue) >>]
  /\ pc' = [pc EXCEPT ![t] = "size_unlock"]
  /\ UNCHANGED << m_queue, m_mutex, m_cv, elem, calls, pushed, popped, pushDone, sawEmpty >>

\* } : the lock_guard's destructor releases the mutex and size returns ret[t].
SizeUnlock(t) ==
  /\ pc[t] = "size_unlock"
  /\ m_mutex' = {}
  /\ ret' = [ret EXCEPT ![t] = << >>]
  /\ pc' = [pc EXCEPT ![t] = "idle"]
  /\ UNCHANGED << m_queue, m_cv, elem, calls, pushed, popped, pushDone, sawEmpty >>

CallEmpty(t) ==
  /\ pc[t] = "idle"
  /\ pc' = [pc EXCEPT ![t] = "empty_lock"]
  /\ UNCHANGED << m_queue, m_mutex, m_cv, elem, ret, pushed, popped, pushDone, sawEmpty >>

\* std::lock_guard lock(m_mutex);
EmptyLock(t) ==
  /\ pc[t] = "empty_lock"
  /\ MutexFree
  /\ m_mutex' = {t}
  /\ pc' = [pc EXCEPT ![t] = "empty_read"]
  /\ UNCHANGED << m_queue, m_cv, elem, ret, calls, pushed, popped, pushDone, sawEmpty >>

\* return m_queue.empty(); : the return value is read under the mutex.
EmptyRead(t) ==
  /\ pc[t] = "empty_read"
  /\ ret' = [ret EXCEPT ![t] = << QueueEmpty(m_queue) >>]
  /\ pc' = [pc EXCEPT ![t] = "empty_unlock"]
  /\ UNCHANGED << m_queue, m_mutex, m_cv, elem, calls, pushed, popped, pushDone, sawEmpty >>

\* } : the lock_guard's destructor releases the mutex and empty returns ret[t].
EmptyUnlock(t) ==
  /\ pc[t] = "empty_unlock"
  /\ m_mutex' = {}
  /\ ret' = [ret EXCEPT ![t] = << >>]
  /\ pc' = [pc EXCEPT ![t] = "idle"]
  /\ UNCHANGED << m_queue, m_cv, elem, calls, pushed, popped, pushDone, sawEmpty >>

\* --------------------------------------------------------- the threads
InPush(t) == pc[t] \in {"push_lock", "push_append", "push_notify", "push_unlock"}
InPop(t) == pc[t] \in {"pop_lock", "pop_check", "pop_wait", "pop_relock", "pop_remove"}

\* push calls and pop calls made so far, completed or not.
PushCalls == pushDone + Cardinality({t \in DOMAIN pc : InPush(t)})
PopCalls == Len(popped) + Cardinality({t \in DOMAIN pc : InPop(t)})

\* One step of push's or pop's code by some thread inside the call.
PushPopStep ==
  \/ \E t \in DOMAIN pc : PushLock(t)
  \/ \E t \in DOMAIN pc : PushAppend(t)
  \/ \E t \in DOMAIN pc : PushNotify(t)
  \/ \E t \in DOMAIN pc : PushUnlock(t)
  \/ \E t \in DOMAIN pc : PopLock(t)
  \/ \E t \in DOMAIN pc : PopCheck(t)
  \/ \E t \in DOMAIN pc : SpuriousWakeup(t)
  \/ \E t \in DOMAIN pc : PopRelock(t)
  \/ \E t \in DOMAIN pc : PopRemove(t)

\* One step of size's or empty's code by some thread inside the call.
ObserveStep ==
  \/ \E t \in DOMAIN pc : SizeLock(t)
  \/ \E t \in DOMAIN pc : SizeRead(t)
  \/ \E t \in DOMAIN pc : SizeUnlock(t)
  \/ \E t \in DOMAIN pc : EmptyLock(t)
  \/ \E t \in DOMAIN pc : EmptyRead(t)
  \/ \E t \in DOMAIN pc : EmptyUnlock(t)

\* ------------------------------------------------- the open workload
\* Any thread not inside a call may call any of the four operations.
Next ==
  \/ \E t \in Threads, e \in Elems :
       PushCalls < MaxPush /\ CallPush(t, e) /\ UNCHANGED calls
  \/ \E t \in Threads : PopCalls < MaxPop /\ CallPop(t) /\ UNCHANGED calls
  \/ \E t \in Threads : CallSize(t) /\ UNCHANGED calls
  \/ \E t \in Threads : CallEmpty(t) /\ UNCHANGED calls
  \/ PushPopStep
  \/ ObserveStep

Spec == Init /\ [][Next]_vars

\* The steps of thread t that wait for nothing: once the thread is there, the
\* step stays possible until the thread takes it.
Running(t) ==
  \/ PushAppend(t)
  \/ PushNotify(t)
  \/ PushUnlock(t)
  \/ PopCheck(t)
  \/ PopRemove(t)
  \/ SizeRead(t)
  \/ SizeUnlock(t)
  \/ EmptyRead(t)
  \/ EmptyUnlock(t)

\* The steps of thread t that wait for the mutex.
Acquire(t) ==
  \/ PushLock(t)
  \/ PopLock(t)
  \/ PopRelock(t)
  \/ SizeLock(t)
  \/ EmptyLock(t)

\* Fair scheduling: a thread inside a call keeps running, and a thread that
\* finds the mutex free again and again gets it in the end.  Nothing obliges a
\* caller to call, nor a wait to wake up spuriously.
Fairness(T) == \A t \in T : WF_vars(Running(t)) /\ SF_vars(Acquire(t))

FairSpec == Init /\ [][Next]_vars /\ Fairness(Threads)

\* ---------------------------------------------------- execute_monitor
\* produce: for (i = 0; i < points_per_thread; ++i) points.push(pt);
\* calls[t] counts the iterations begun.
Produce(t) ==
  /\ t \in Producers
  /\ calls[t] < PointsPerThread
  /\ \E e \in Elems : CallPush(t, e)
  /\ calls' = [calls EXCEPT ![t] = @ + 1]

\* consume: for (i = 0; i < points_per_thread; ++i) pt = points.pop();
Consume(t) ==
  /\ t \in Consumers
  /\ calls[t] < PointsPerThread
  /\ CallPop(t)
  /\ calls' = [calls EXCEPT ![t] = @ + 1]

\* The loop of produce or consume is over: the thread ends and can be joined.
Exit(t) ==
  /\ pc[t] = "idle"
  /\ calls[t] = PointsPerThread
  /\ pc' = [pc EXCEPT ![t] = "done"]
  /\ UNCHANGED << m_queue, m_mutex, m_cv, elem, ret, calls, pushed, popped,
                  pushDone, sawEmpty >>

\* blocking_queue points; then threads_per_type producers and as many consumers.
InitMonitor == InitQueue /\ InitThreads(MonitorThreads)

NextMonitor ==
  \/ \E t \in MonitorThreads : Produce(t)
  \/ \E t \in MonitorThreads : Consume(t)
  \/ \E t \in MonitorThreads : Exit(t)
  \/ PushPopStep

SpecMonitor == InitMonitor /\ [][NextMonitor]_vars

FairMonitor ==
  /\ InitMonitor
  /\ [][NextMonitor]_vars
  /\ Fairness(MonitorThreads)
  /\ \A t \in MonitorThreads : WF_vars(Produce(t) \/ Consume(t) \/ Exit(t))

\* The join of every producer and consumer has returned.
Joined == \A t \in DOMAIN pc : pc[t] = "done"

\* =====================================================================
\* Properties
\* =====================================================================
IsPrefix(s, u) == Len(s) <= Len(u) /\ \A i \in 1 .. Len(s) : s[i] = u[i]

BagOfSeq(s) ==
  [e \in {s[i] : i \in DOMAIN s} |-> Cardinality({i \in DOMAIN s : s[i] = e})]

\* C1. Global FIFO: the elements in the order pop removes them are a prefix
\* of the elements in the order push inserted them, whatever the number of
\* threads and the interleaving; so when as many have been popped as were
\* pushed, they came out e1..en in the order they went in.
GlobalFIFO ==
  /\ IsPrefix(popped, pushed)
  /\ (Len(popped) = Len(pushed) => popped = pushed)

\* Two different elements have been pushed and popped again.
GlobalFIFOWitness ==
  /\ Len(popped) = MaxPush
  /\ popped[1] # popped[2]
  /\ pushDone = MaxPush

\* C2. No loss, no duplication: the bag of the elements inserted is the bag of
\* the elements pop returned plus the bag of the buffer; the k-th element
\* returned is the k-th inserted, so none is returned twice; and when as many
\* pops as pushes have completed, what was returned is what they pushed.
NoLossNoDuplication ==
  /\ BagOfSeq(pushed) = BagOfSeq(popped) (+) BagOfSeq(m_queue)
  /\ Len(pushed) = Len(popped) + Len(m_queue)
  /\ (Len(popped) = pushDone /\ pushDone <= Len(pushed) =>
        BagOfSeq(popped) = BagOfSeq(SubSeq(pushed, 1, pushDone)))

\* The same value was pushed twice; one copy is out, the other in the buffer.
NoLossNoDuplicationWitness ==
  /\ Len(popped) = 1
  /\ Len(m_queue) = 1
  /\ pushed[1] = pushed[2]
  /\ pushDone = 2

\* C3. Blocking safety: a pop that found the buffer empty returns only after a
\* push has inserted an element since (so it never returns if no push comes),
\* and no more pops have completed than pushes have inserted.
BlockingSafety ==
  /\ [][\A t \in DOMAIN pc :
          (InPop(t) /\ pc'[t] = "idle" /\ sawEmpty[t] # << >>)
            => Len(pushed) > sawEmpty[t][2]]_vars
  /\ [](Len(popped) <= Len(pushed))

\* A pop that had found the buffer empty is about to return an element.
BlockingSafetyWitness ==
  \E t \in DOMAIN pc :
    /\ pc[t] = "pop_remove"
    /\ sawEmpty[t] # << >>
    /\ m_queue # << >>

\* The pop calls in progress that found the buffer empty before any push.
BlockedFirst ==
  {t \in DOMAIN pc : InPop(t) /\ sawEmpty[t] # << >> /\ sawEmpty[t][1] = 0}

WaitingPc == {"pop_lock", "pop_check", "pop_wait", "pop_relock"}

\* Exactly one push has completed, nothing has been popped, and every pop call
\* made so far is one that found the buffer empty before that push.
HandOffCase ==
  /\ Len(pushed) = 1
  /\ pushDone = 1
  /\ popped = << >>
  /\ BlockedFirst # {}
  /\ PopCalls = Cardinality(BlockedFirst)

BalancedTermination ==
  /\ <>Joined
  /\ [](Joined =>
          /\ Len(popped) = ThreadsPerType * PointsPerThread
          /\ pushDone = ThreadsPerType * PointsPerThread
          /\ popped = pushed
          /\ m_queue = << >>
          /\ m_cv = {}
          /\ MutexFree)

\* Every thread is joined, all the elements were received, not all equal.
BalancedTerminationWitness ==
  /\ Joined
  /\ Len(popped) = ThreadsPerType * PointsPerThread
  /\ popped[1] # popped[2]

\* C6, as stated. Every pop that found the buffer empty returns once one push
\* has inserted an element after that.
PopLivenessOnePush ==
  \A t \in Threads :
    (InPop(t) /\ sawEmpty[t] # << >> /\ Len(pushed) > sawEmpty[t][1])
      ~> ~InPop(t)

\* C6, amended. Every pop call returns in the end provided that, from some
\* point on, at least as many elements have been pushed as pop calls made.
PopLiveness ==
  \A t \in Threads :
    (<>[](Len(pushed) >= PopCalls)) => (InPop(t) ~> ~InPop(t))

\* Two pops found the buffer empty, two pushes came, and the second of the
\* pops is about to return.
PopLivenessWitness ==
  \E t \in Threads :
    /\ pc[t] = "pop_remove"
    /\ sawEmpty[t] # << >>
    /\ sawEmpty[t][1] = 0
    /\ Len(popped) = 1
    /\ PopCalls = 2
    /\ Len(pushed) = 2

\* C7. push, size and empty wait for the mutex and for nothing else: at their
\* lock they can go on exactly when the mutex is free, and each later step of
\* theirs can always be taken, whatever the buffer holds and whoever waits.
NeverBlocksOnData ==
  \A t \in DOMAIN pc :
    /\ pc[t] = "push_lock" => ((ENABLED PushLock(t)) <=> MutexFree)
    /\ pc[t] = "push_append" => ENABLED PushAppend(t)
    /\ pc[t] = "push_notify" => ENABLED PushNotify(t)
    /\ pc[t] = "push_unlock" => ENABLED PushUnlock(t)
    /\ pc[t] = "size_lock" => ((ENABLED SizeLock(t)) <=> MutexFree)
    /\ pc[t] = "size_read" => ENABLED SizeRead(t)
    /\ pc[t] = "size_unlock" => ENABLED SizeUnlock(t)
    /\ pc[t] = "empty_lock" => ((ENABLED EmptyLock(t)) <=> MutexFree)
    /\ pc[t] = "empty_read" => ENABLED EmptyRead(t)
    /\ pc[t] = "empty_unlock" => ENABLED EmptyUnlock(t)

\* A push is at its lock with the mutex free, while the buffer holds an
\* element and a consumer is suspended.
NeverBlocksOnDataWitness ==
  \E t \in DOMAIN pc :
    /\ pc[t] = "push_lock"
    /\ MutexFree
    /\ ENABLED PushLock(t)
    /\ Len(m_queue) = 1
    /\ m_cv # {}

\* C8. A thread suspended on the condition variable does not own the mutex,
\* so a push can take the mutex while every other thread is suspended in pop.
WaiterHoldsNoMutex ==
  /\ \A t \in m_cv : pc[t] = "pop_wait" /\ m_mutex # {t}
  /\ \A t \in DOMAIN pc : pc[t] = "pop_wait" => m_mutex # {t}
  /\ \A p \in DOMAIN pc :
       (pc[p] = "push_lock" /\ \A u \in DOMAIN pc \ {p} : u \in m_cv)
         => ENABLED PushLock(p)

\* A producer has taken the mutex while the two other threads are suspended.
WaiterHoldsNoMutexWitness ==
  \E p \in DOMAIN pc :
    /\ pc[p] = "push_append"
    /\ m_mutex = {p}
    /\ m_cv = DOMAIN pc \ {p}

\* C9. pop suspends only on an empty buffer: a thread enters the wait set only
\* from the predicate test on an empty buffer; a test on a non-empty buffer
\* goes on to the removal, which returns the head.
SuspendsOnlyWhenEmpty ==
  /\ [][\A t \in DOMAIN pc :
          (t \notin m_cv /\ t \in m_cv') =>
            (pc[t] = "pop_check" /\ m_queue = << >>)]_vars
  /\ [][\A t \in DOMAIN pc :
          (pc[t] = "pop_check" /\ m_queue # << >> /\ pc'[t] # pc[t]) =>
            (pc'[t] = "pop_remove" /\ t \notin m_cv' /\ m_mutex' = {t})]_vars
  /\ [][\A t \in DOMAIN pc :
          (pc[t] = "pop_remove" /\ pc'[t] # pc[t]) =>
            (pc'[t] = "idle" /\ m_queue # << >>
               /\ popped' = Append(popped, Head(m_queue)))]_vars

\* A pop found the buffer non-empty at its first test and is about to return
\* without having suspended.
SuspendsOnlyWhenEmptyWitness ==
  \E t \in DOMAIN pc :
    /\ pc[t] = "pop_remove"
    /\ sawEmpty[t] = << >>
    /\ Len(m_queue) = 2

\* C10. Sequential snapshot: as long as no pop has removed anything, size()
\* returns the number k of push calls that have completed (0 right after
\* construction) and empty() returns whether k = 0.
SequentialSnapshot ==
  \A t \in DOMAIN pc :
    popped = << >> =>
      /\ pc[t] = "size_unlock" => ret[t] = << pushDone >>
      /\ pc[t] = "empty_unlock" => ret[t] = << pushDone = 0 >>

\* size() is about to return 2 after two pushes and no pop call.
SequentialSnapshotWitness ==
  \E t \in DOMAIN pc :
    /\ pc[t] = "size_unlock"
    /\ ret[t] = << 2 >>
    /\ pushDone = 2
    /\ PopCalls = 0
    /\ \A u \in DOMAIN pc \ {t} : pc[u] = "idle"

\* C11. Concurrent snapshot: whatever push and pop do meanwhile, the value
\* size() is about to return is the length the buffer has while size holds the
\* mutex, and the value of empty() is whether that length is 0; the buffer
\* cannot change between the read and the release.
ConcurrentSnapshot ==
  \A t \in DOMAIN pc :
    /\ pc[t] \in {"size_read", "size_unlock", "empty_read", "empty_unlock"}
         => m_mutex = {t}
    /\ pc[t] = "size_unlock" => ret[t] = << Len(m_queue) >>
    /\ pc[t] = "empty_unlock" => ret[t] = << Len(m_queue) = 0 >>

\* size() is about to return 1 while another thread is inside its second push
\* and a third is inside pop, both waiting for the mutex.
ConcurrentSnapshotWitness ==
  \E t \in DOMAIN pc :
    /\ pc[t] = "size_unlock"
    /\ ret[t] = << 1 >>
    /\ pushDone = 1
    /\ \E u \in DOMAIN pc : InPush(u)
    /\ \E u \in DOMAIN pc : InPop(u)

\* The threads between taking and releasing the mutex.
InCritical(t) ==
  pc[t] \in {"push_append", "push_notify", "push_unlock", "pop_check", "pop_remove",
             "size_read", "size_unlock", "empty_read", "empty_unlock"}

\* C12. Mutual exclusion: at most one thread is between taking and releasing
\* the mutex, that thread is the owner of the mutex, and the buffer is changed
\* only by a step of the owner.
MutualExclusion ==
  /\ [](/\ Cardinality({t \in DOMAIN pc : InCritical(t)}) <= 1
        /\ \A t \in DOMAIN pc : InCritical(t) <=> m_mutex = {t})
  /\ [][m_queue' # m_queue =>
          \E t \in DOMAIN pc : InCritical(t) /\ m_mutex = {t} /\ pc'[t] # pc[t]]_vars

\* A push owns the mutex while a pop, a size and nothing else wait for it.
MutualExclusionWitness ==
  \E t, u, v \in DOMAIN pc :
    /\ pc[t] = "push_append"
    /\ pc[u] = "pop_relock"
    /\ pc[v] = "size_lock"
    /\ m_mutex = {t}

\* C14. Predicate re-check: the removal step of pop is never taken on an empty
\* buffer, whatever woke the consumer and however many consumers race; a
\* consumer that tests the predicate and finds the buffer empty suspends
\* (again) and does nothing else.
PredicateRecheck ==
  /\ [](\A t \in DOMAIN pc : pc[t] = "pop_remove" => m_queue # << >> /\ m_mutex = {t})
  /\ [][\A t \in DOMAIN pc :
          pc[t] = "pop_check" /\ m_queue = << >> /\ pc'[t] # pc[t] =>
            /\ pc'[t] = "pop_wait"
            /\ t \in m_cv'
            /\ UNCHANGED << m_queue, popped >>]_vars

\* A consumer woken after a push found the buffer already emptied by a faster
\* consumer and is suspended again: its first and last empty tests saw
\* different numbers of insertions.
PredicateRecheckWitness ==
  \E t \in DOMAIN pc :
    /\ pc[t] = "pop_wait"
    /\ t \in m_cv
    /\ sawEmpty[t][1] # sawEmpty[t][2]
    /\ Len(popped) = 1
    /\ m_queue = << >>

\* C15. Push wakes a waiter on every call: a push that reaches its notify
\* while consumers are suspended makes one of them runnable, whether the
\* buffer was empty before the push or not.
PushWakesWaiter ==
  [][\A t \in DOMAIN pc :
       pc[t] = "push_notify" /\ pc'[t] = "push_unlock" /\ m_cv # {} =>
         \E w \in m_cv : w \notin m_cv' /\ pc[w] = "pop_wait" /\ pc'[w] = "pop_relock"]_vars

\* The second push found one element in the buffer and one consumer still
\* suspended, and has woken it: both consumers are now runnable.
PushWakesWaiterWitness ==
  \E t \in DOMAIN pc :
    /\ pc[t] = "push_unlock"
    /\ Len(m_queue) = 2
    /\ m_cv = {}
    /\ Cardinality({w \in DOMAIN pc : pc[w] = "pop_relock"}) = 2
    /\ \A w \in DOMAIN pc : pc[w] = "pop_relock" => sawEmpty[w] = << 0, 0 >>

\* C17, as the specification states it: the pushing thread does not own the
\* mutex at the moment it notifies.
PushUnlocksBeforeNotify ==
  \A t \in DOMAIN pc : pc[t] = "push_notify" => m_mutex # {t}

\* C17. Step order inside push is lock, append, notify, unlock: from the
\* append to the return push owns the mutex, the notify included; the element
\* is in the buffer when the notify happens; the mutex is released by the
\* last step of push and by no earlier one.
PushNotifiesUnderLock ==
  /\ [](\A t \in DOMAIN pc :
          /\ pc[t] \in {"push_append", "push_notify", "push_unlock"} => m_mutex = {t}
          /\ pc[t] = "push_append" => Len(pushed) = pushDone
          /\ pc[t] \in {"push_notify", "push_unlock"} => Len(pushed) = pushDone + 1)
  /\ [][\A t \in DOMAIN pc :
          /\ pc[t] = "push_lock" => pc'[t] \in {"push_lock", "push_append"}
          /\ pc[t] = "push_append" => pc'[t] \in {"push_append", "push_notify"}
          /\ pc[t] = "push_notify" => pc'[t] \in {"push_notify", "push_unlock"}
          /\ pc[t] = "push_unlock" => pc'[t] \in {"push_unlock", "idle"}
          /\ InPush(t) /\ m_mutex = {t} /\ m_mutex' # {t} =>
               pc[t] = "push_unlock" /\ pc'[t] = "idle"]_vars

\* A push is at its notify, owning the mutex, with a consumer suspended.
PushNotifiesUnderLockWitness ==
  \E t \in DOMAIN pc :
    /\ pc[t] = "push_notify"
    /\ m_mutex = {t}
    /\ m_cv # {}
    /\ Len(m_queue) = 1

\* C18, as the specification states it: a pop that removes an element while
\* consumers are suspended wakes one of them.
PopCascades ==
  [][\A t \in DOMAIN pc :
       pc[t] = "pop_remove" /\ pc'[t] = "idle" /\ m_cv # {} =>
         \E w \in m_cv : w \notin m_cv']_vars

\* C18. No wakeup comes from pop: the removal step leaves the set of suspended
\* consumers and every other thread as they were; a suspended consumer
\* becomes runnable only at the notify of a push or by a spurious wakeup.
NoPopCascade ==
  /\ [][\A t \in DOMAIN pc :
          pc[t] = "pop_remove" /\ pc'[t] # pc[t] =>
            /\ m_cv' = m_cv
            /\ \A w \in DOMAIN pc \ {t} : pc'[w] = pc[w]]_vars
  /\ [][\A w \in m_cv :
          w \notin m_cv' =>
            \/ \E t \in DOMAIN pc : pc[t] = "push_notify" /\ pc'[t] = "push_unlock"
            \/ pc' = [pc EXCEPT ![w] = "pop_relock"]]_vars

\* One pop has returned the only element pushed and nothing is running, while
\* another consumer is still suspended.
NoPopCascadeWitness ==
  /\ Len(popped) = 1
  /\ pushDone = 1
  /\ m_cv # {}
  /\ MutexFree
  /\ \A t \in DOMAIN pc : pc[t] \in {"idle", "pop_wait"}

\* A step of size() or empty() by thread t.
ObserverStep(t) ==
  /\ pc[t] \in {"size_lock", "size_read", "size_unlock",
                "empty_lock", "empty_read", "empty_unlock"}
  /\ pc'[t] # pc[t]

\* C19. State machine and frame: the buffer changes only by the append of a
\* push, which adds one element at the tail, and by the removal of a pop,
\* which drops the head; it goes from empty to non-empty only by an append and
\* from non-empty to empty only by the removal of its last element; a step of
\* size() or empty() leaves the buffer as it is, wakes no waiter and moves no
\* other thread.
StateMachineFrame ==
  [][/\ m_queue' # m_queue =>
          \/ \E t \in DOMAIN pc :
               /\ pc[t] = "push_append" /\ pc'[t] = "push_notify"
               /\ Len(m_queue') = Len(m_queue) + 1
               /\ SubSeq(m_queue', 1, Len(m_queue)) = m_queue
          \/ \E t \in DOMAIN pc :
               /\ pc[t] = "pop_remove" /\ pc'[t] = "idle"
               /\ Len(m_queue') = Len(m_queue) - 1
               /\ m_queue' = Tail(m_queue)
     /\ m_queue = << >> /\ m_queue' # << >> =>
          \E t \in DOMAIN pc : pc[t] = "push_append" /\ pc'[t] = "push_notify"
     /\ m_queue # << >> /\ m_queue' = << >> =>
          /\ Len(m_queue) = 1
          /\ \E t \in DOMAIN pc : pc[t] = "pop_remove" /\ pc'[t] = "idle"
     /\ \A t \in DOMAIN pc :
          ObserverStep(t) =>
            /\ UNCHANGED << m_queue, m_cv, pushed, popped >>
            /\ \A w \in DOMAIN pc \ {t} : pc'[w] = pc[w]]_vars

\* The buffer is empty again after two removals and empty() has just read it.
StateMachineFrameWitness ==
  \E t \in DOMAIN pc :
    /\ pc[t] = "empty_unlock"
    /\ ret[t] = << TRUE >>
    /\ Len(popped) = 2
    /\ m_queue = << >>

\* No thread owns the mutex, none is part-way through push, size or empty,
\* and no consumer has been woken without having tested the predicate again.
Quiescent ==
  /\ MutexFree
  /\ \A t \in DOMAIN pc :
       /\ ~InPush(t)
       /\ pc[t] \notin {"size_lock", "size_read", "size_unlock",
                        "empty_lock", "empty_read", "empty_unlock"}
       /\ pc[t] # "pop_relock"

\* C20. No lost wakeup: in every quiescent state with a consumer suspended in
\* pop the buffer is empty.
NoLostWakeup ==
  Quiescent /\ m_cv # {} => m_queue = << >>

\* A quiescent state with exactly one consumer suspended, after a push has
\* completed and its element has been taken by another consumer.
NoLostWakeupWitness ==
  /\ Quiescent
  /\ Cardinality(m_cv) = 1
  /\ pushDone = 1
  /\ popped = pushed
  /\ m_queue = << >>

=============================================================================
